---- MODULE Spec2Model ----
(***************************************************************************)
(* Model of extract_tags.py: the tag extraction heuristic                  *)
(* (extract_tags_from_text), the per-file loop (process_video_file) and    *)
(* the batch entry point (main).                                           *)
(*                                                                         *)
(* Python strings are TLA+ strings; TLC evaluates Len, SubSeq and \o on    *)
(* them, so a character is a string of length one.                         *)
(***************************************************************************)
EXTENDS Integers, Sequences, FiniteSets, TLC

VARIABLES
    title,        \* argument of extract_tags_from_text
    description,  \* argument of extract_tags_from_text
    result,       \* the returned list (a sequence of tags)
    pc,           \* "call" before the function ran, "return" after
    files,        \* the two source files on disk, by path
    mpc,          \* position of main and of the process_video_file it calls
    cur,          \* process_video_file: its filepath argument
    data,         \* process_video_file: the loaded JSON document
    idx,          \* process_video_file: index of the next record of the loop
    video_tags,   \* process_video_file: the mapping built so far
    atw_tags,     \* main: result for Data/AdamTheWoo.json
    tdw_tags,     \* main: result for Data/TheDailyWoo.json
    out_file,     \* content of Data/VideoTags.json
    out_opens,    \* how many times main opened the output file for writing
    error         \* the exception that ended the run, or "none"

vars == <<title, description, result, pc, files, mpc, cur, data, idx,
          video_tags, atw_tags, tdw_tags, out_file, out_opens, error>>

extract_vars == <<title, description, result, pc>>
batch_vars == <<files, mpc, cur, data, idx, video_tags, atw_tags, tdw_tags,
                out_file, out_opens, error>>

----------------------------------------------------------------------------
(* Characters and the str methods the program uses.                        *)

ascii_lowercase == "abcdefghijklmnopqrstuvwxyz"
ascii_uppercase == "ABCDEFGHIJKLMNOPQRSTUVWXYZ"
digits == "0123456789"

\* The modelled alphabet in code point order: ' ' < digits < upper < '_' < lower.
code_points == " 0123456789ABCDEFGHIJKLMNOPQRSTUVWXYZ_abcdefghijklmnopqrstuvwxyz"

CharAt(s, i) == SubSeq(s, i, i)

Chars(s) == {CharAt(s, i) : i \in 1..Len(s)}

Position(c, s) == CHOOSE i \in 1..Len(s) : CharAt(s, i) = c

\* ord(c), up to an order isomorphism on the modelled alphabet
ord == [c \in Chars(code_points) |-> Position(c, code_points)]

to_lower == [c \in Chars(code_points) |->
                IF c \in Chars(ascii_uppercase)
                THEN CharAt(ascii_lowercase, Position(c, ascii_uppercase))
                ELSE c]

to_upper == [c \in Chars(code_points) |->
                IF c \in Chars(ascii_lowercase)
                THEN CharAt(ascii_uppercase, Position(c, ascii_lowercase))
                ELSE c]

is_alpha == [c \in Chars(code_points) |->
                c \in Chars(ascii_lowercase) \cup Chars(ascii_uppercase)]

is_digit == [c \in Chars(code_points) |-> c \in Chars(digits)]

\* \w of the re module: letters, digits and the underscore
is_word == [c \in Chars(code_points) |-> is_alpha[c] \/ is_digit[c] \/ c = "_"]

\* str.lower()
RECURSIVE lower(_)
lower(s) ==
    IF s = "" THEN ""
    ELSE to_lower[CharAt(s, 1)] \o lower(SubSeq(s, 2, Len(s)))

\* str.title(): a letter that follows a non-letter (or starts the string) is
\* upper-cased, every other letter is lower-cased.
RECURSIVE title_from(_, _)
title_from(s, i) ==
    IF i > Len(s) THEN ""
    ELSE LET c == CharAt(s, i)
             starts == i = 1 \/ ~is_alpha[CharAt(s, i - 1)]
         IN  (IF starts THEN to_upper[c] ELSE to_lower[c]) \o title_from(s, i + 1)

title_case(s) == title_from(s, 1)

\* str.replace(' ', '')
RECURSIVE remove_spaces(_)
remove_spaces(s) ==
    IF s = "" THEN ""
    ELSE (IF CharAt(s, 1) = " " THEN "" ELSE CharAt(s, 1))
            \o remove_spaces(SubSeq(s, 2, Len(s)))

\* the `in` operator on strings: sub is a substring of s
Contains(s, sub) ==
    LET n == Len(sub)
    IN  \E i \in 1..(Len(s) - n + 1) : SubSeq(s, i, i + n - 1) = sub

\* any(word in text for word in words)
any_in(words, text) == \E w \in words : Contains(text, w)

\* the < of Python strings: lexicographic by code point
str_less(a, b) ==
    LET n == IF Len(a) < Len(b) THEN Len(a) ELSE Len(b)
        diff == {i \in 1..n : CharAt(a, i) # CharAt(b, i)}
    IN  IF diff = {} THEN Len(a) < Len(b)
        ELSE LET i == CHOOSE j \in diff : \A k \in diff : j <= k
             IN  ord[CharAt(a, i)] < ord[CharAt(b, i)]

\* sorted(list(tags)) with the order reversed
sorted_descending(S) ==
    LET RECURSIVE descending(_)
        descending(T) ==
            IF T = {} THEN <<>>
            ELSE LET m == CHOOSE x \in T : \A y \in T : x = y \/ str_less(y, x)
                 IN  <<m>> \o descending(T \ {m})
    IN  descending(S)

\* sorted(list(tags)): the elements of the set in ascending order
sorted(S) ==
    LET RECURSIVE ascending(_)
        ascending(T) ==
            IF T = {} THEN <<>>
            ELSE LET m == CHOOSE x \in T : \A y \in T : x = y \/ str_less(x, y)
                 IN  <<m>> \o ascending(T \ {m})
    IN  ascending(S)

----------------------------------------------------------------------------
(* extract_tags_from_text                                                  *)

location_keywords ==
    {"florida", "orlando", "disney", "disneyland", "universal", "california",
     "las vegas", "new york", "hollywood", "los angeles", "miami", "tokyo",
     "epcot", "magic kingdom", "hollywood studios", "animal kingdom",
     "kissimmee", "st cloud", "san diego", "japan", "paris", "london"}

place_keywords ==
    {"abandoned", "hotel", "motel", "restaurant", "theme park", "amusement park",
     "mall", "shopping center", "museum", "attraction", "resort", "casino",
     "park", "beach", "airport", "train station", "ghost town"}

activity_keywords ==
    {"exploring", "vlog", "daily vlog", "tour", "review", "unboxing",
     "shopping", "eating", "dining", "traveling", "hiking", "walking",
     "ride", "roller coaster", "adventure", "urban exploration"}

brand_keywords ==
    {"star wars", "marvel", "harry potter", "transformers", "jurassic",
     "walmart", "target", "mcdonalds", "taco bell", "arbys", "wendys",
     "pizza hut", "burger king", "kfc", "subway"}

event_keywords ==
    {"christmas", "halloween", "thanksgiving", "new year", "birthday",
     "fourth of july", "easter", "valentine"}

content_keywords ==
    {"haunted", "scary", "creepy", "mysterious", "historic", "vintage",
     "retro", "nostalgic", "behind the scenes", "construction", "demolition",
     "closed", "opening day", "grand opening", "last day", "final"}

transport_keywords ==
    {"road trip", "van life", "driving", "flight", "cruise", "train"}

food_keywords ==
    {"food", "buffet", "breakfast", "lunch", "dinner", "snack", "dessert"}

\* the vocabulary with the article 'the' added as a keyword
keywords_with_article ==
    location_keywords \cup place_keywords \cup activity_keywords
      \cup brand_keywords \cup event_keywords \cup content_keywords
      \cup transport_keywords \cup food_keywords \cup {"the"}

\* the set `keywords` (lines 18-54)
keywords ==
    location_keywords \cup place_keywords \cup activity_keywords
      \cup brand_keywords \cup event_keywords \cup content_keywords
      \cup transport_keywords \cup food_keywords

stoplist == {"A", "An", "The", "In", "On", "At", "To", "From"}

\* f"{title}{description}".lower(): the separating space left out
combined_text_unseparated(ttl, desc) == lower(ttl \o desc)

\* f"{title} {description}".lower()
combined_text(ttl, desc) == lower(ttl \o " " \o desc)

\* keyword.title().replace(' ', '')
normalize(keyword) == remove_spaces(title_case(keyword))

\* the keywords found in the text (line 58)
matched_keywords(text) == {k \in keywords : Contains(text, k)}

\* the tags the stoplist check of line 61 throws away
stoplist_discarded(text) ==
    {tg \in {normalize(k) : k \in matched_keywords(text)} : tg \in stoplist}

\* the loop over the vocabulary (lines 57-62)
vocabulary_tags(text) ==
    {tg \in {normalize(k) : k \in matched_keywords(text)} : tg \notin stoplist}

states ==
    [FL |-> "Florida", CA |-> "California", NV |-> "Nevada", NY |-> "NewYork",
     TX |-> "Texas", AZ |-> "Arizona", GA |-> "Georgia", NC |-> "NorthCarolina"]

\* re.search(rf'\b{word}\b', s): word starts and ends with a \w character, so
\* the match needs a non-\w character, or an end of the string, on each side.
word_search(word, s) ==
    \E i \in 1..(Len(s) - Len(word) + 1) :
        /\ SubSeq(s, i, i + Len(word) - 1) = word
        /\ (i = 1 \/ ~is_word[CharAt(s, i - 1)])
        /\ (i + Len(word) - 1 = Len(s) \/ ~is_word[CharAt(s, i + Len(word))])

\* line 72 without its second disjunct
state_condition_regex_only(abbr, ttl, text) == word_search(abbr, ttl)

\* the condition of line 72
state_condition(abbr, ttl, text) ==
    word_search(abbr, ttl) \/ Contains(text, lower(abbr))

\* the loop over the state table (lines 71-73)
state_tags(ttl, text) ==
    {states[abbr] : abbr \in {a \in DOMAIN states : state_condition(a, ttl, text)}}

\* lines 76-78
daily_woo_tags(text) ==
    IF Contains(text, "daily woo") \/ Contains(text, "the daily woo")
    THEN {"DailyVlog", "DailyWoo"}
    ELSE {}

\* the five independent checks of lines 81-98, in source order
patterns ==
    << [words |-> {"abandoned", "exploring", "exploration", "sneaking", "closed"},
        tag |-> "UrbanExploration"],
       [words |-> {"disney", "universal", "theme park", "amusement", "epcot",
                   "magic kingdom"},
        tag |-> "ThemePark"],
       [words |-> {"food", "eating", "restaurant", "buffet", "lunch", "dinner",
                   "breakfast", "menu"},
        tag |-> "Food"],
       [words |-> {"travel", "trip", "vacation", "journey", "adventure"},
        tag |-> "Travel"],
       [words |-> {"hotel", "motel", "resort", "room tour", "staying at"},
        tag |-> "Accommodation"] >>

\* the five checks chained with elif: only the first applicable one fires
pattern_tags_elif(text) ==
    LET hits == {j \in DOMAIN patterns : any_in(patterns[j].words, text)}
    IN  {patterns[i].tag : i \in {j \in hits : \A k \in hits : j <= k}}

pattern_tags(text) ==
    {patterns[i].tag : i \in {j \in DOMAIN patterns : any_in(patterns[j].words, text)}}

\* the start positions at which 20\d{2}, without the \b anchors, matches
year_matches_unanchored(ttl) ==
    {i \in 1..(Len(ttl) - 3) :
        /\ SubSeq(ttl, i, i + 1) = "20"
        /\ is_digit[CharAt(ttl, i + 2)]
        /\ is_digit[CharAt(ttl, i + 3)]}

\* the start positions at which \b(20\d{2})\b matches
year_matches(ttl) ==
    {i \in 1..(Len(ttl) - 3) :
        /\ SubSeq(ttl, i, i + 1) = "20"
        /\ is_digit[CharAt(ttl, i + 2)]
        /\ is_digit[CharAt(ttl, i + 3)]
        /\ (i = 1 \/ ~is_word[CharAt(ttl, i - 1)])
        /\ (i + 3 = Len(ttl) \/ ~is_word[CharAt(ttl, i + 4)])}

\* lines 101-103: re.search returns the leftmost match
year_tags(ttl) ==
    IF year_matches(ttl) = {} THEN {}
    ELSE LET i == CHOOSE j \in year_matches(ttl) : \A k \in year_matches(ttl) : j <= k
         IN  {"Year" \o SubSeq(ttl, i, i + 3)}

\* re.search(r'Day(\d+)', title): the space of the pattern left out
day_tags_no_space(ttl) ==
    IF \E i \in 1..(Len(ttl) - 3) :
          SubSeq(ttl, i, i + 2) = "Day" /\ is_digit[CharAt(ttl, i + 3)]
    THEN {"DailyVlog"}
    ELSE {}

\* lines 106-108: re.search(r'Day (\d+)', title)
day_tags(ttl) ==
    IF \E i \in 1..(Len(ttl) - 4) :
          SubSeq(ttl, i, i + 3) = "Day " /\ is_digit[CharAt(ttl, i + 4)]
    THEN {"DailyVlog"}
    ELSE {}

\* the set `tags` when line 111 is reached
tag_set(ttl, desc) ==
    LET text == combined_text(ttl, desc)
    IN  vocabulary_tags(text) \cup state_tags(ttl, text) \cup daily_woo_tags(text)
          \cup pattern_tags(text) \cup year_tags(ttl) \cup day_tags(ttl)

extract_tags_from_text(ttl, desc) == sorted(tag_set(ttl, desc))

----------------------------------------------------------------------------
(* The inputs: titles and descriptions made of a few words joined by one   *)
(* space.                                                                  *)

MaxTitleWords == 2
MaxDescWords == 1

TitleWords ==
    {"Las", "Vegas", "New York", "TX", "Lunch", "The", "2022", "2023", "20225",
     "Daily Woo", "Day 47", "Exploring", "Trip"}

DescWords == {"Vegas", "tx 2022"}

RECURSIVE phrases(_, _)
phrases(W, n) ==
    IF n = 0 THEN {""}
    ELSE LET shorter == phrases(W, n - 1)
         IN  shorter \cup
             {IF p = "" THEN w ELSE p \o " " \o w : p \in shorter, w \in W}

\* the batch run is not part of this specification
idle_batch ==
    /\ files = <<>>
    /\ mpc = "idle"
    /\ cur = ""
    /\ data = <<>>
    /\ idx = 0
    /\ video_tags = <<>>
    /\ atw_tags = <<>>
    /\ tdw_tags = <<>>
    /\ out_file = [state |-> "untouched"]
    /\ out_opens = 0
    /\ error = "none"

Init ==
    /\ title \in phrases(TitleWords, MaxTitleWords)
    /\ description \in phrases(DescWords, MaxDescWords)
    /\ result = <<>>
    /\ pc = "call"
    /\ idle_batch

\* one call of extract_tags_from_text(title, description)
Extract ==
    /\ pc = "call"
    /\ result' = extract_tags_from_text(title, description)
    /\ pc' = "return"
    /\ UNCHANGED <<title, description>>
    /\ UNCHANGED batch_vars

Next == Extract

Spec == Init /\ [][Next]_vars

----------------------------------------------------------------------------
(* process_video_file and main                                             *)

ATW == "Data/AdamTheWoo.json"
TDW == "Data/TheDailyWoo.json"

MaxVideos == 2

\* records of the first collection: two share an identifier, one lacks a field
AtwVideos ==
    {[VideoId |-> "v1", Title |-> "Daily Woo Day 47", Description |-> ""],
     [VideoId |-> "v1", Title |-> "Las", Description |-> "Vegas"],
     [VideoId |-> "v2", Title |-> "Lunch Trip 2022", Description |-> "tx"],
     [VideoId |-> "v3", Title |-> "Exploring"]}

\* records of the second collection: two lack a field
TdwVideos ==
    {[VideoId |-> "v4", Title |-> "TX", Description |-> "2022"],
     [Title |-> "The Daily Woo", Description |-> ""],
     [VideoId |-> "v5", Description |-> "Vegas"]}

RECURSIVE lists(_, _)
lists(S, n) ==
    IF n = 0 THEN {<<>>}
    ELSE LET shorter == lists(S, n - 1)
         IN  shorter \cup {Append(l, x) : l \in shorter, x \in S}

\* what a source file can be: absent, not JSON, a document without the key
\* 'Videos', or a document with a list of records
contents(pool) ==
    {[status |-> "missing"], [status |-> "malformed"],
     [status |-> "json", doc |-> [Channel |-> "woo"]]}
      \cup {[status |-> "json", doc |-> [Videos |-> l]] : l \in lists(pool, MaxVideos)}

\* the extraction is not called on its own in this specification
idle_extract ==
    /\ title = ""
    /\ description = ""
    /\ result = <<>>
    /\ pc = "idle"

InitBatch ==
    /\ idle_extract
    /\ files \in {(ATW :> a) @@ (TDW :> t) :
                    a \in contents(AtwVideos), t \in contents(TdwVideos)}
    /\ mpc = "call_atw"
    /\ cur = ""
    /\ data = <<>>
    /\ idx = 0
    /\ video_tags = <<>>
    /\ atw_tags = <<>>
    /\ tdw_tags = <<>>
    /\ out_file = [state |-> "untouched"]
    /\ out_opens = 0
    /\ error = "none"

\* an uncaught exception ends the run
raise(exception) ==
    /\ error' = exception
    /\ mpc' = "crashed"

\* video_tags[video_id] = tags, keeping an entry that is already there
store_if_absent(mapping, video_id, tags) ==
    [k \in DOMAIN mapping \cup {video_id} |->
        IF k \in DOMAIN mapping THEN mapping[k] ELSE tags]

\* video_tags[video_id] = tags (line 126)
store(mapping, video_id, tags) ==
    [k \in DOMAIN mapping \cup {video_id} |->
        IF k = video_id THEN tags ELSE mapping[k]]

\* main calls process_video_file (lines 133 and 137)
CallProcess ==
    /\ mpc \in {"call_atw", "call_tdw"}
    /\ cur' = IF mpc = "call_atw" THEN ATW ELSE TDW
    /\ mpc' = "open"
    /\ UNCHANGED <<files, data, idx, video_tags, atw_tags, tdw_tags, out_file,
                   out_opens, error>>
    /\ UNCHANGED extract_vars

\* line 115: open() of a file that is not there
OpenFails ==
    /\ mpc = "open"
    /\ files[cur].status = "missing"
    /\ raise("FileNotFoundError")
    /\ UNCHANGED <<files, cur, data, idx, video_tags, atw_tags, tdw_tags, out_file,
                   out_opens>>
    /\ UNCHANGED extract_vars

\* line 116: json.load() of a file that is not JSON
LoadFails ==
    /\ mpc = "open"
    /\ files[cur].status = "malformed"
    /\ raise("JSONDecodeError")
    /\ UNCHANGED <<files, cur, data, idx, video_tags, atw_tags, tdw_tags, out_file,
                   out_opens>>
    /\ UNCHANGED extract_vars

\* lines 115-118: the document is loaded and the mapping starts empty
Load ==
    /\ mpc = "open"
    /\ files[cur].status = "json"
    /\ data' = files[cur].doc
    /\ video_tags' = <<>>
    /\ idx' = 1
    /\ mpc' = "loop"
    /\ UNCHANGED <<files, cur, atw_tags, tdw_tags, out_file, out_opens, error>>
    /\ UNCHANGED extract_vars

\* line 120: data['Videos'] of a document without that key
VideosKeyError ==
    /\ mpc = "loop"
    /\ "Videos" \notin DOMAIN data
    /\ raise("KeyError")
    /\ UNCHANGED <<files, cur, data, idx, video_tags, atw_tags, tdw_tags, out_file,
                   out_opens>>
    /\ UNCHANGED extract_vars

\* the record a loop iteration accepts (lines 121-123)
well_formed(video) == {"VideoId", "Title", "Description"} \subseteq DOMAIN video

\* lines 121-123, a record without one of the three keys: swallowed, the loop
\* goes on with the next record
VideoKeyErrorSkipped ==
    /\ mpc = "loop"
    /\ "Videos" \in DOMAIN data
    /\ idx <= Len(data.Videos)
    /\ ~well_formed(data.Videos[idx])
    /\ idx' = idx + 1
    /\ UNCHANGED <<files, mpc, cur, data, video_tags, atw_tags, tdw_tags, out_file,
                   out_opens, error>>
    /\ UNCHANGED extract_vars

\* lines 121-123: a record without one of the three keys
VideoKeyError ==
    /\ mpc = "loop"
    /\ "Videos" \in DOMAIN data
    /\ idx <= Len(data.Videos)
    /\ ~well_formed(data.Videos[idx])
    /\ raise("KeyError")
    /\ UNCHANGED <<files, cur, data, idx, video_tags, atw_tags, tdw_tags, out_file,
                   out_opens>>
    /\ UNCHANGED extract_vars

\* lines 120-126: one iteration of the loop
ProcessVideo ==
    /\ mpc = "loop"
    /\ "Videos" \in DOMAIN data
    /\ idx <= Len(data.Videos)
    /\ well_formed(data.Videos[idx])
    /\ LET video == data.Videos[idx]
       IN  video_tags' = store(video_tags, video.VideoId,
                               extract_tags_from_text(video.Title, video.Description))
    /\ idx' = idx + 1
    /\ UNCHANGED <<files, mpc, cur, data, atw_tags, tdw_tags, out_file, out_opens,
                   error>>
    /\ UNCHANGED extract_vars

\* line 128, and the assignment of the result in main (lines 133 and 137)
Return ==
    /\ mpc = "loop"
    /\ "Videos" \in DOMAIN data
    /\ idx > Len(data.Videos)
    /\ IF cur = ATW
       THEN atw_tags' = video_tags /\ mpc' = "call_tdw" /\ UNCHANGED tdw_tags
       ELSE tdw_tags' = video_tags /\ mpc' = "open_output" /\ UNCHANGED atw_tags
    /\ UNCHANGED <<files, cur, data, idx, video_tags, out_file, out_opens, error>>
    /\ UNCHANGED extract_vars

\* lines 141-151
output ==
    [GeneratedAt |-> "2026-01-10T00:00:00Z",
     Description |-> "Tags extracted from video titles and descriptions",
     VideoTags |-> [AdamTheWoo |-> atw_tags, TheDailyWoo |-> tdw_tags]]

\* line 155: open(output_path, 'w') creates or truncates the file
OpenOutput ==
    /\ mpc = "open_output"
    /\ out_file' = [state |-> "empty"]
    /\ out_opens' = out_opens + 1
    /\ mpc' = "dump"
    /\ UNCHANGED <<files, cur, data, idx, video_tags, atw_tags, tdw_tags, error>>
    /\ UNCHANGED extract_vars

\* line 155: the file cannot be opened for writing
OpenOutputFails ==
    /\ mpc = "open_output"
    /\ raise("OSError")
    /\ UNCHANGED <<files, cur, data, idx, video_tags, atw_tags, tdw_tags, out_file,
                   out_opens>>
    /\ UNCHANGED extract_vars

\* line 156: json.dump writes the whole structure, the file is closed
Dump ==
    /\ mpc = "dump"
    /\ out_file' = [state |-> "written", json |-> output]
    /\ mpc' = "done"
    /\ UNCHANGED <<files, cur, data, idx, video_tags, atw_tags, tdw_tags,
                   out_opens, error>>
    /\ UNCHANGED extract_vars

\* line 156: a write fails part of the way
DumpFails ==
    /\ mpc = "dump"
    /\ out_file' = [state |-> "partial"]
    /\ raise("OSError")
    /\ UNCHANGED <<files, cur, data, idx, video_tags, atw_tags, tdw_tags,
                   out_opens>>
    /\ UNCHANGED extract_vars

NextBatch ==
    \/ CallProcess
    \/ OpenFails
    \/ LoadFails
    \/ Load
    \/ VideosKeyError
    \/ VideoKeyError
    \/ ProcessVideo
    \/ Return
    \/ OpenOutput
    \/ OpenOutputFails
    \/ Dump
    \/ DumpFails

SpecBatch == InitBatch /\ [][NextBatch]_vars

----------------------------------------------------------------------------
(* Properties of extract_tags_from_text, checked under Spec.               *)

Returned == pc = "return"

\* the tags of the returned list
Tags == {result[i] : i \in 1..Len(result)}

\* the lowercase of title + one space + description
Text == lower(title \o " " \o description)

\* C1: for every (title, description) the returned list is in strictly
\* ascending lexicographic order: it is sorted and no tag occurs twice.
C1_StrictlyAscending ==
    Returned =>
        /\ \A i \in 1..(Len(result) - 1) : str_less(result[i], result[i + 1])
        /\ \A i, j \in 1..Len(result) : i # j => result[i] # result[j]

\* C1 witness: DailyVlog is added by two rules and the list has several tags.
C1_Witness ==
    /\ Returned
    /\ Contains(Text, "daily woo")
    /\ Contains(title, "Day 47")
    /\ Len(result) >= 3

\* C2: every keyword of the vocabulary that is a substring of the lowercase
\* of title + " " + description has its tag (title-cased, spaces removed) in
\* the result; 'las vegas' gives 'LasVegas'.
C2_VocabularyMatching ==
    Returned =>
        LET text == Text
            tags == Tags
        IN  /\ \A k \in keywords : Contains(text, k) => normalize(k) \in tags
            /\ Contains(text, "las vegas") => "LasVegas" \in tags
            /\ Contains(text, "new york") => "NewYork" \in tags
            /\ Contains(text, "lunch") => "Lunch" \in tags

\* C2 witness: the keyword is matched in another case than the input's and
\* across the space that joins title and description.
C2_Witness ==
    /\ Returned
    /\ ~Contains(lower(title), "las vegas")
    /\ ~Contains(lower(description), "las vegas")
    /\ ~Contains(title \o " " \o description, "las vegas")
    /\ Contains(Text, "las vegas")
    /\ "LasVegas" \in Tags

StateTable ==
    {<<"FL", "Florida">>, <<"CA", "California">>, <<"NV", "Nevada">>,
     <<"NY", "NewYork">>, <<"TX", "Texas">>, <<"AZ", "Arizona">>,
     <<"GA", "Georgia">>, <<"NC", "NorthCarolina">>}

\* the state rule's condition as the claim states it
StateRuleFires(abbr, text) == word_search(abbr, title) \/ Contains(text, lower(abbr))

StateRuleHolds(text) ==
    LET emitted == state_tags(title, text)
    IN  \A p \in StateTable :
            /\ p[2] \in emitted <=> StateRuleFires(p[1], text)
            /\ StateRuleFires(p[1], text) => p[2] \in Tags

\* C3 as stated: the state rule emits the canonical tag exactly when the
\* abbreviation is a standalone word of the title or its lowercase occurs in
\* the lowercase combined text, and Nevada, NewYork, Texas, Arizona, Georgia
\* and NorthCarolina are in the result if and only if that condition holds.
C3_AsStated ==
    Returned =>
        LET text == Text
        IN  /\ StateRuleHolds(text)
            /\ \A p \in StateTable \ {<<"FL", "Florida">>, <<"CA", "California">>} :
                  p[2] \in Tags => StateRuleFires(p[1], text)

\* C3 amended: as C3, with the if-and-only-if restricted to Nevada, Texas,
\* Arizona, Georgia and NorthCarolina (NewYork is also the tag of the
\* vocabulary keyword 'new york').
C3_StateRule ==
    Returned =>
        LET text == Text
        IN  /\ StateRuleHolds(text)
            /\ \A p \in StateTable \ {<<"FL", "Florida">>, <<"CA", "California">>,
                                      <<"NY", "NewYork">>} :
                  p[2] \in Tags => StateRuleFires(p[1], text)

\* C3 witness: Texas comes from the lowercase substring alone, while another
\* state of the table is absent.
C3_Witness ==
    /\ Returned
    /\ ~word_search("TX", title)
    /\ Contains(Text, "tx")
    /\ "Texas" \in Tags
    /\ "Georgia" \notin Tags

\* C4: the state rule matches case-sensitively and on word boundaries against
\* the original title: an abbreviation that is not a standalone word of the
\* title (only lowercase, only inside a longer word, only in the description)
\* does not get its state's tag from the state rule.
C4_TitleWordBoundaryOnly ==
    Returned =>
        LET emitted == state_tags(title, Text)
        IN  \A p \in StateTable : ~word_search(p[1], title) => p[2] \notin emitted

\* the positions of the title at which a sequence 20dd starts
YearPositions ==
    {i \in 1..(Len(title) - 3) :
        /\ SubSeq(title, i, i + 1) = "20"
        /\ CharAt(title, i + 2) \in Chars(digits)
        /\ CharAt(title, i + 3) \in Chars(digits)}

\* those at which the sequence is a token of its own: no letter, digit or
\* underscore right before or right after it
StandaloneYearPositions ==
    {i \in YearPositions :
        /\ (i = 1 \/ ~is_word[CharAt(title, i - 1)])
        /\ (i + 3 = Len(title) \/ ~is_word[CharAt(title, i + 4)])}

First(S) == CHOOSE i \in S : \A j \in S : i <= j

YearTagsInResult ==
    {tg \in Tags : /\ Len(tg) = 8
                   /\ SubSeq(tg, 1, 6) = "Year20"
                   /\ CharAt(tg, 7) \in Chars(digits)
                   /\ CharAt(tg, 8) \in Chars(digits)}

\* at most one Year tag, and its digits are taken from the title
YearTagsFromTitle ==
    /\ Cardinality(YearTagsInResult) <= 1
    /\ \A tg \in YearTagsInResult : Contains(title, SubSeq(tg, 5, 8))

\* C5 as stated: whenever a sequence 20dd occurs anywhere in the title, the
\* result contains 'Year' + the digits of the first such occurrence; the
\* description is not used, and there is at most one Year20dd tag.
C5_AsStated ==
    Returned =>
        /\ YearPositions # {} =>
              ("Year" \o SubSeq(title, First(YearPositions), First(YearPositions) + 3))
                  \in Tags
        /\ YearTagsFromTitle

\* C5 amended: whenever a sequence 20dd occurs in the title as a token of its
\* own (a word boundary on each side), the result contains 'Year' + the digits
\* of the first such occurrence; the description is not used, and there is at
\* most one Year20dd tag.
C5_YearRule ==
    Returned =>
        /\ StandaloneYearPositions # {} =>
              ("Year" \o SubSeq(title, First(StandaloneYearPositions),
                                First(StandaloneYearPositions) + 3)) \in Tags
        /\ YearTagsFromTitle

\* C5 witness: the title holds two different years of their own and the
\* description a year as well; the tag is that of the first one.
C5_Witness ==
    /\ Returned
    /\ Cardinality(StandaloneYearPositions) >= 2
    /\ Contains(title, "2023 2022")
    /\ Contains(description, "20")
    /\ YearTagsInResult = {"Year2023"}

\* the title holds 'Day ' followed by a digit
DayNumberInTitle ==
    \E i \in 1..(Len(title) - 4) :
        SubSeq(title, i, i + 3) = "Day " /\ CharAt(title, i + 4) \in Chars(digits)

\* C6: 'daily woo' in the lowercase combined text gives DailyVlog and
\* DailyWoo; 'Day ' + digits in the title gives DailyVlog; DailyVlog occurs
\* once even when both fire; DailyWoo is in the result iff 'daily woo' is in
\* the lowercase combined text.
C6_DailyRules ==
    Returned =>
        LET text == Text
        IN  /\ Contains(text, "daily woo") => {"DailyVlog", "DailyWoo"} \subseteq Tags
            /\ DayNumberInTitle => "DailyVlog" \in Tags
            /\ Cardinality({i \in 1..Len(result) : result[i] = "DailyVlog"}) <= 1
            /\ "DailyWoo" \in Tags <=> Contains(text, "daily woo")

\* C6 witness: the spec's example, where both rules fire.
C6_Witness ==
    /\ Returned
    /\ title = "Daily Woo Day 47"
    /\ description = ""
    /\ result = <<"DailyVlog", "DailyWoo">>

PatternTriggers ==
    [UrbanExploration |-> {"abandoned", "exploring", "exploration", "sneaking",
                           "closed"},
     ThemePark |-> {"disney", "universal", "theme park", "amusement", "epcot",
                    "magic kingdom"},
     Food |-> {"food", "eating", "restaurant", "buffet", "lunch", "dinner",
               "breakfast", "menu"},
     Travel |-> {"travel", "trip", "vacation", "journey", "adventure"},
     Accommodation |-> {"hotel", "motel", "resort", "room tour", "staying at"}]

\* C7: each of UrbanExploration, ThemePark, Food, Travel and Accommodation is
\* in the result if and only if the lowercase combined text contains one of
\* its trigger substrings, whatever other rules fired.
C7_PatternRules ==
    Returned =>
        LET text == Text
        IN  \A tg \in DOMAIN PatternTriggers :
                tg \in Tags <=> \E w \in PatternTriggers[tg] : Contains(text, w)

\* C7 witness: two pattern rules fire on one input, next to a state rule.
C7_Witness ==
    /\ Returned
    /\ {"Food", "Travel"} \subseteq Tags
    /\ "NorthCarolina" \in Tags
    /\ "UrbanExploration" \notin Tags

StopTags == {"A", "An", "The", "In", "On", "At", "To", "From"}

NoKeywordIsAStopTag == \A k \in keywords : normalize(k) \notin StopTags

\* C9: no result contains A, An, The, In, On, At, To or From, and with the
\* shipped vocabulary the stoplist check never discards a tag: no keyword
\* normalizes to a stoplist entry.
C9_Stoplist ==
    Returned =>
        /\ Tags \cap StopTags = {}
        /\ stoplist_discarded(Text) = {}
        /\ NoKeywordIsAStopTag

\* C9 witness: the title holds the word 'The' and tags are returned.
C9_Witness ==
    /\ Returned
    /\ word_search("The", title)
    /\ Contains(Text, "the daily woo")
    /\ "DailyWoo" \in Tags

----------------------------------------------------------------------------
(* Properties of process_video_file and main, checked under SpecBatch.     *)

\* the record list of a source file that holds one
VideosOf(path) == files[path].doc.Videos

\* reading, parsing or a record of the file at path fails
ReadFailure(path) ==
    \/ files[path].status # "json"
    \/ "Videos" \notin DOMAIN files[path].doc
    \/ \E i \in 1..Len(VideosOf(path)) :
          ~({"VideoId", "Title", "Description"} \subseteq DOMAIN VideosOf(path)[i])

Ids(videos) == {videos[i].VideoId : i \in 1..Len(videos)}

\* process_video_file has returned the mapping of the first, second file
AtwReturned == mpc = "call_tdw" \/ cur = TDW
TdwReturned == mpc \in {"open_output", "dump", "done"} \/ error = "OSError"

\* what is true of every state of a run
C8_State ==
    /\ out_opens <= 1
    /\ out_opens = 0 <=> out_file.state = "untouched"
    /\ cur = TDW => ~ReadFailure(ATW) /\ DOMAIN atw_tags = Ids(VideosOf(ATW))
    /\ out_opens > 0 =>
          /\ ~ReadFailure(ATW) /\ DOMAIN atw_tags = Ids(VideosOf(ATW))
          /\ ~ReadFailure(TDW) /\ DOMAIN tdw_tags = Ids(VideosOf(TDW))
    /\ ReadFailure(ATW) \/ ReadFailure(TDW) =>
          /\ out_file.state = "untouched"
          /\ mpc \notin {"open_output", "dump", "done"}
          /\ error \in {"none", "FileNotFoundError", "JSONDecodeError", "KeyError"}
    /\ mpc = "crashed" <=> error # "none"
    /\ mpc = "done" => out_opens = 1 /\ out_file.state = "written"

\* what is true of every step of a run
C8_Step ==
    /\ mpc # "crashed"
    /\ mpc = "open" /\ files[cur].status = "missing" =>
          mpc' = "crashed" /\ error' = "FileNotFoundError"
    /\ mpc = "open" /\ files[cur].status = "malformed" =>
          mpc' = "crashed" /\ error' = "JSONDecodeError"
    /\ mpc = "loop" /\ "Videos" \notin DOMAIN files[cur].doc =>
          mpc' = "crashed" /\ error' = "KeyError"
    /\ /\ mpc = "loop"
       /\ "Videos" \in DOMAIN files[cur].doc
       /\ idx <= Len(VideosOf(cur))
       /\ ~({"VideoId", "Title", "Description"} \subseteq DOMAIN VideosOf(cur)[idx])
       => mpc' = "crashed" /\ error' = "KeyError"
    /\ mpc = "loop" /\ mpc' = "loop" => idx' = idx + 1
    /\ mpc' = "open" => (mpc = "call_atw" /\ cur' = ATW) \/ (mpc = "call_tdw" /\ cur' = TDW)
    /\ out_file' # out_file => mpc \in {"open_output", "dump"}
    /\ files' = files

\* C8: main processes AdamTheWoo completely, then TheDailyWoo completely, and
\* only then opens and writes the output file, once; when reading or parsing
\* a source fails or a record lacks a key, the run ends with that error,
\* nothing is skipped or retried, and the output file is left untouched.
C8_AllOrNothing == []C8_State /\ [][C8_Step]_vars

\* C8 witness: the first file was processed completely, a record of the
\* second lacks a key, and the run ended without touching the output file.
C8_Witness ==
    /\ mpc = "crashed"
    /\ error = "KeyError"
    /\ cur = TDW
    /\ idx = 2
    /\ DOMAIN atw_tags = {"v1", "v2"}
    /\ out_file.state = "untouched"

\* the mapping process_video_file returns for a list of well-formed records
MappingCorrect(mapping, videos) ==
    /\ DOMAIN mapping = Ids(videos)
    /\ \A id \in Ids(videos) :
          LET last == CHOOSE i \in 1..Len(videos) :
                          /\ videos[i].VideoId = id
                          /\ \A j \in (i + 1)..Len(videos) : videos[j].VideoId # id
          IN  mapping[id] =
                  extract_tags_from_text(videos[last].Title, videos[last].Description)
    /\ Cardinality(Ids(videos)) = Len(videos) =>
          Cardinality(DOMAIN mapping) = Len(videos)

\* C10: the mapping process_video_file returns has one entry per distinct
\* VideoId of the file, whose value is the extraction of the last record with
\* that VideoId; with unique identifiers its size is the record count.
C10_LastRecordWins ==
    /\ AtwReturned => MappingCorrect(atw_tags, VideosOf(ATW))
    /\ TdwReturned => MappingCorrect(tdw_tags, VideosOf(TDW))

\* C10 witness: two records share the identifier and differ in their tags;
\* the mapping holds the second one's.
C10_Witness ==
    /\ AtwReturned
    /\ Len(VideosOf(ATW)) = 2
    /\ DOMAIN atw_tags = {"v1"}
    /\ atw_tags["v1"] = <<"Georgia", "LasVegas">>
    /\ extract_tags_from_text(VideosOf(ATW)[1].Title, VideosOf(ATW)[1].Description)
          = <<"DailyVlog", "DailyWoo">>

====
